---- MODULE Spec2Model ----
(***************************************************************************)
(* dddkit: self-validating records (ValueObject / Entity / Aggregate with  *)
(* @check methods), the Aggregate event log, and the Prometheus metrics    *)
(* hooks of the stories framework.                                         *)
(*                                                                         *)
(* Python strings that the code inspects character by character (method   *)
(* names) are sequences of one-character strings; messages are sequences   *)
(* of chunks, '' being <<>>, so that concatenation and truthiness are      *)
(* computed.  Metric names are TLA+ strings built with \o.                 *)
(***************************************************************************)
EXTENDS Naturals, Integers, Sequences, FiniteSets, TLC

VARIABLES
    cls,     \* the record class the program declares: kind and declared methods
    objs,    \* the instances that exist (constructor returned them), in creation order
    last,    \* what the most recent operation did: checks called, error raised
    held,    \* the lists get_events has returned to the caller, in the order returned
    hooks,   \* the PrometheusMetricsHook instances constructed
    metrics, \* PrometheusMetricsHook._metrics of each hook module: name -> histogram
    hist,    \* the Histogram objects the backends hold, by module and name
    run,     \* the story execution in progress: its context and the hook registered
    threads  \* the threads constructing a hook: their position in __post_init__

recordVars == <<cls, objs, last, held>>
hookVars == <<hooks, metrics, hist, run, threads>>
vars == <<cls, objs, last, held, hooks, metrics, hist, run, threads>>

----------------------------------------------------------------------------
(* Bounds of the model *)

MaxObjs == 1
MaxField == 2
MaxChecks == 2
MaxLog == 2
MaxHooks == 2
MaxSteps == 3
MaxCalls == 3
MaxThreads == 2
MaxAggregates == 2
MaxHeld == 2

FieldVals == 0..MaxField

----------------------------------------------------------------------------
(* Python values a check method can return *)

Scalar(tag, b, n, s) == [tag |-> tag, b |-> b, n |-> n, s |-> s]

PyBool(b) == [tag |-> "bool", b |-> b, n |-> 0, s |-> <<>>, items |-> <<>>]
PyInt(n) == [tag |-> "int", b |-> FALSE, n |-> n, s |-> <<>>, items |-> <<>>]
PyStr(s) == [tag |-> "str", b |-> FALSE, n |-> 0, s |-> s, items |-> <<>>]
PyNone == [tag |-> "none", b |-> FALSE, n |-> 0, s |-> <<>>, items |-> <<>>]
PyList == [tag |-> "list", b |-> FALSE, n |-> 0, s |-> <<>>, items |-> <<>>]
PyTuple(items) == [tag |-> "tuple", b |-> FALSE, n |-> 0, s |-> <<>>, items |-> items]

\* an element of a tuple, as a value of its own
Item(e) == [tag |-> e.tag, b |-> e.b, n |-> e.n, s |-> e.s, items |-> <<>>]

\* bool(v) for the values a message can be
Truthy(v) ==
    CASE v.tag = "bool" -> v.b
      [] v.tag = "int" -> v.n # 0
      [] v.tag = "str" -> v.s # <<>>
      [] v.tag = "tuple" -> v.items # <<>>
      [] OTHER -> FALSE

----------------------------------------------------------------------------
(* Exceptions *)

NoError == [kind |-> "None", arg |-> PyNone, hasArg |-> FALSE]
Raise(kind) == [kind |-> kind, arg |-> PyNone, hasArg |-> FALSE]
RaiseWith(kind, arg) == [kind |-> kind, arg |-> arg, hasArg |-> TRUE]

----------------------------------------------------------------------------
(* Method names: sequences of characters, ordered as Python orders str *)

Ord(c) ==
    CASE c = "_" -> 95
      [] c = "a" -> 97
      [] c = "b" -> 98
      [] c = "h" -> 104

\* a < b for Python strings: the first differing character decides, a proper
\* prefix is smaller
RECURSIVE StrLess(_, _)
StrLess(a, b) ==
    IF b = <<>> THEN FALSE
    ELSE IF a = <<>> THEN TRUE
    ELSE IF Head(a) = Head(b) THEN StrLess(Tail(a), Tail(b))
    ELSE Ord(Head(a)) < Ord(Head(b))

\* name.startswith('_')
StartsWithUnderscore(name) == Len(name) > 0 /\ name[1] = "_"

----------------------------------------------------------------------------
(* The record class under test: its kind and the methods its body declares *)

Kinds == {"ValueObject", "Entity", "Aggregate"}
CheckNames == {<<"_", "a">>, <<"a">>, <<"b">>}
ExceptionTypes == {"None", "ValueError"}
Preds == {"ge1", "le1"}
\* shapes whose result depends on the predicate over the field
BoolShapes == {"bool", "pair", "pair_empty"}
\* shapes that break the return contract
BadShapes == {"list", "int", "none", "tuple1", "tuple3", "pair_int"}

\* methods decorated with @check / @check(exception_type=E)
CheckDecls ==
    [name : CheckNames, check : {TRUE}, exc : ExceptionTypes,
     shape : {"bool"}, pred : Preds]
    \cup
    [name : CheckNames, check : {TRUE}, exc : ExceptionTypes,
     shape : {"pair", "pair_empty", "list", "tuple3"}, pred : {"ge1"}]
    \cup
    [name : CheckNames, check : {TRUE}, exc : {"None"},
     shape : {"int", "none", "tuple1", "pair_int"}, pred : {"ge1"}]

\* an undecorated public method every class has (check_precision in the tests)
Helper ==
    [name |-> <<"h">>, check |-> FALSE, exc |-> "None", shape |-> "bool", pred |-> "ge1"]

\* class bodies: up to MaxChecks decorated methods in declaration order, names distinct
DeclSeqs ==
    UNION {{s \in [1..n -> CheckDecls] :
                \A i, j \in 1..n : i # j => s[i].name # s[j].name} : n \in 0..MaxChecks}

Classes == [kind : Kinds, decls : DeclSeqs]

\* the classes whose body declares at most one check
SmallClasses == [kind : Kinds, decls : {<<>>} \cup {<<d>> : d \in CheckDecls}]

\* the value the undecorated body f returns for an instance whose field is x
Body(f, x) ==
    LET p == IF f.pred = "ge1" THEN x >= 1 ELSE x <= 1
        B == Scalar("bool", p, 0, <<>>)
        M == Scalar("str", FALSE, 0, <<"msg">>)
        E == Scalar("str", FALSE, 0, <<>>)
        I == Scalar("int", FALSE, x, <<>>)
    IN CASE f.shape = "bool" -> PyBool(p)
         [] f.shape = "pair" -> PyTuple(<<B, M>>)
         [] f.shape = "pair_empty" -> PyTuple(<<B, E>>)
         [] f.shape = "list" -> PyList
         [] f.shape = "int" -> PyInt(x)
         [] f.shape = "none" -> PyNone
         [] f.shape = "tuple1" -> PyTuple(<<B>>)
         [] f.shape = "tuple3" -> PyTuple(<<B, M, M>>)
         [] f.shape = "pair_int" -> PyTuple(<<I, M>>)

----------------------------------------------------------------------------
(* check.decorator.wrapper: the error the decorated method raises, NoError   *)
(* when it returns                                                          *)

DefaultMessage(f) == PyStr(<<"Check failed: ">> \o f.name)

UnpackError(n) ==
    RaiseWith("ValueError",
              PyStr(IF n < 2 THEN <<"not enough values to unpack">>
                    ELSE <<"too many values to unpack">>))

\* faulty variant of wrapper: exception_type is ignored
wrapper_ignores_exception_type(f, x) ==
    LET r == Body(f, x)
        isTuple == r.tag = "tuple"
    IN IF isTuple /\ Len(r.items) # 2 THEN UnpackError(Len(r.items))
       ELSE LET result == IF isTuple THEN Item(r.items[1]) ELSE r
                message == IF isTuple THEN Item(r.items[2]) ELSE PyStr(<<>>)
            IN IF result.tag # "bool" THEN Raise("CheckMustReturnBoolError")
               ELSE IF ~result.b
                    THEN RaiseWith("CheckFailedError",
                                   IF Truthy(message) THEN message ELSE DefaultMessage(f))
                    ELSE NoError

wrapper(f, x) ==
    LET r == Body(f, x)
        isTuple == r.tag = "tuple"
    IN IF isTuple /\ Len(r.items) # 2 THEN UnpackError(Len(r.items))
       ELSE LET result == IF isTuple THEN Item(r.items[1]) ELSE r
                message == IF isTuple THEN Item(r.items[2]) ELSE PyStr(<<>>)
            IN IF result.tag # "bool" THEN Raise("CheckMustReturnBoolError")
               ELSE IF ~result.b
                    THEN IF f.exc # "None" THEN RaiseWith(f.exc, message)
                         ELSE RaiseWith("CheckFailedError",
                                        IF Truthy(message) THEN message
                                        ELSE DefaultMessage(f))
                    ELSE NoError

----------------------------------------------------------------------------
(* CheckableObject *)

\* inspect.getmembers: the members sorted by name
RECURSIVE Insert(_, _)
Insert(m, sorted) ==
    IF sorted = <<>> THEN <<m>>
    ELSE IF StrLess(m.name, Head(sorted).name) THEN <<m>> \o sorted
    ELSE <<Head(sorted)>> \o Insert(m, Tail(sorted))

RECURSIVE SortByName(_)
SortByName(ms) == IF ms = <<>> THEN <<>> ELSE Insert(Head(ms), SortByName(Tail(ms)))

\* faulty variant of getmembers: the members in the order of declaration
getmembers_as_declared(c) == c.decls \o <<Helper>>

\* inspect.getmembers(self, ...): the members sorted by name
getmembers(c) == SortByName(c.decls \o <<Helper>>)

\* faulty variant of predicate: no filter on the name
predicate_any(m) == TRUE

\* the predicate handed to getmembers: a method whose __name__ has no leading
\* underscore (every member modelled here is a method)
predicate(m) == ~StartsWithUnderscore(m.name)

\* getattr(method, '_check', False)
has_check_mark(m) == m.check

\* __obtain_checks: the members getmembers keeps, in its order, that carry the mark
obtain_checks(c) == SelectSeq(SelectSeq(getmembers(c), predicate), has_check_mark)

\* faulty variant of run_checks: every check is called, the first error is raised at the end
RECURSIVE run_all_checks(_, _, _)
run_all_checks(checks, x, called) ==
    IF checks = <<>> THEN [called |-> called, error |-> NoError]
    ELSE LET f == Head(checks)
             e == wrapper(f, x)
             rest == run_all_checks(Tail(checks), x, Append(called, f.name))
         IN [called |-> rest.called, error |-> IF e # NoError THEN e ELSE rest.error]

\* __check: call the checks one after the other; an exception ends the loop
RECURSIVE run_checks(_, _, _)
run_checks(checks, x, called) ==
    IF checks = <<>> THEN [called |-> called, error |-> NoError]
    ELSE LET f == Head(checks)
             e == wrapper(f, x)
         IN IF e # NoError THEN [called |-> Append(called, f.name), error |-> e]
            ELSE run_checks(Tail(checks), x, Append(called, f.name))

\* faulty variant of post_init: the checks are not run
post_init_unchecked(c, x) == [called |-> <<>>, error |-> NoError]

\* __post_init__
post_init(c, x) == run_checks(obtain_checks(c), x, <<>>)

----------------------------------------------------------------------------
(* The stories framework and the metrics backends, as the hooks see them *)

Variants == {"prometheus", "aioprometheus"}
AppNames == {"test"}
Prefixes == {"a", "b"}
StoryNames == {"SampleStory"}

\* StepStatus.FAILED
StepStatus_FAILED == "failed"

\* a dict entry that may be absent: <<>> or <<value>>
\* the meta the framework leaves on a completed step: status and duration
\* (in microseconds), each of which may be absent
Metas ==
    {[status |-> <<>>, duration |-> <<>>],
     [status |-> <<"completed">>, duration |-> <<1500>>],
     [status |-> <<StepStatus_FAILED>>, duration |-> <<700>>]}

\* dict.get(key, default)
get(opt, default) == IF opt = <<>> THEN default ELSE opt[1]

NoHook ==
    [variant |-> "", app_name |-> "", prefix |-> "", meta_key |-> "",
     metric_name |-> "", step_metric_name |-> ""]

NoRun ==
    [active |-> FALSE, finished |-> FALSE, hook |-> NoHook, story |-> "", steps |-> <<>>,
     next |-> 0, calls |-> 0, step_before |-> 0, agg_before |-> 0]

ThreadIds == 1..MaxThreads

\* a thread that has not entered the hook's constructor
IdleThread == [pc |-> "idle", hook |-> NoHook, absent |-> FALSE, error |-> NoError]

\* no hook module has been used
HooksIdle ==
    /\ hooks = {}
    /\ metrics = [v \in Variants |-> <<>>]
    /\ hist = <<>>
    /\ run = NoRun
    /\ threads = [t \in ThreadIds |-> IdleThread]

----------------------------------------------------------------------------
(* Operations on records *)

Events == {"Created", "Changed"}

\* what an operation did: its target instance (0: none), the field value it
\* passed or read, the event it passed ("": none), the checks it called in
\* call order, and the exception that reached the caller
Op(op, target, x, event, called, error) ==
    [op |-> op, target |-> target, x |-> x, event |-> event,
     called |-> called, error |-> error]

\* the instance the dataclass __init__ builds: the field as given, and for an
\* Aggregate the _events list of default_factory=list
NewInstance(x) == [x |-> x, events |-> <<>>]

Init ==
    /\ cls \in Classes
    /\ objs = <<>>
    /\ last = Op("none", 0, 0, "", <<>>, NoError)
    /\ held = <<>>
    /\ HooksIdle

\* cls(x=x): the generated __init__ assigns the field and calls __post_init__;
\* the caller gets the instance only when no check raised
Construct ==
    /\ Len(objs) < MaxObjs
    /\ \E x \in FieldVals :
          LET r == post_init(cls, x)
          IN IF r.error = NoError
             THEN /\ objs' = Append(objs, NewInstance(x))
                  /\ last' = Op("init", Len(objs) + 1, x, "", r.called, r.error)
             ELSE /\ objs' = objs
                  /\ last' = Op("init", 0, x, "", r.called, r.error)
    /\ UNCHANGED <<cls, held, hookVars>>

\* obj.x = v: a frozen dataclass raises FrozenInstanceError, the others assign
SetField ==
    /\ \E i \in 1..Len(objs), v \in FieldVals :
          IF cls.kind = "ValueObject"
          THEN /\ last' = Op("setattr", i, v, "", <<>>, Raise("FrozenInstanceError"))
               /\ UNCHANGED objs
          ELSE /\ last' = Op("setattr", i, v, "", <<>>, NoError)
               /\ objs' = [objs EXCEPT ![i].x = v]
    /\ UNCHANGED <<cls, held, hookVars>>

\* obj.x
GetField ==
    /\ \E i \in 1..Len(objs) : last' = Op("getattr", i, objs[i].x, "", <<>>, NoError)
    /\ UNCHANGED <<cls, objs, held, hookVars>>

\* faulty variant of add_event: the event is put at the front
add_event_front(events, event) == <<event>> \o events

\* Aggregate.add_event: self._events.append(event)
add_event(events, event) == Append(events, event)

\* Aggregate.clear_events: self._events.clear()
clear_events(events) == <<>>

\* Aggregate.get_events
get_events(o) == o.events

AddEvent ==
    /\ cls.kind = "Aggregate"
    /\ \E i \in 1..Len(objs), e \in Events :
          /\ Len(objs[i].events) < MaxLog
          /\ objs' = [objs EXCEPT ![i].events = add_event(@, e)]
          /\ last' = Op("add_event", i, objs[i].x, e, <<>>, NoError)
    /\ UNCHANGED <<cls, held, hookVars>>

ClearEvents ==
    /\ cls.kind = "Aggregate"
    /\ \E i \in 1..Len(objs) :
          /\ objs' = [objs EXCEPT ![i].events = clear_events(@)]
          /\ last' = Op("clear_events", i, objs[i].x, "", <<>>, NoError)
    /\ UNCHANGED <<cls, held, hookVars>>

\* one class, any number of constructor calls
Next == Construct

Spec == Init /\ [][Next]_vars

\* instances of a class are constructed and then used
InitObjects ==
    /\ cls \in SmallClasses
    /\ objs = <<>>
    /\ last = Op("none", 0, 0, "", <<>>, NoError)
    /\ held = <<>>
    /\ HooksIdle

NextObjects == Construct \/ SetField \/ GetField \/ AddEvent \/ ClearEvents

SpecObjects == InitObjects /\ [][NextObjects]_vars

----------------------------------------------------------------------------
(* Properties of construction *)

Names(seq) == {seq[i] : i \in DOMAIN seq}
Declared == {cls.decls[i] : i \in DOMAIN cls.decls}
DeclaredNames == {d.name : d \in Declared}
PublicCheckNames == {d.name : d \in {e \in Declared : e.name[1] # "_"}}
HiddenChecks == {d \in Declared : d.name[1] = "_"}

Constructed == last.op = "init" /\ last.error = NoError
ConstructionFailed == last.op = "init" /\ last.error # NoError

\* the check whose call ended the validation loop, and what its body returned
LastCalled == CHOOSE d \in Declared : d.name = last.called[Len(last.called)]
Returned == Body(LastCalled, last.x)
ACheckRan == last.op = "init" /\ last.called # <<>>

IsPair(r) == r.tag = "tuple" /\ Len(r.items) = 2
\* False or (False, message)
IsFailure(r) ==
    \/ r.tag = "bool" /\ ~r.b
    \/ IsPair(r) /\ r.items[1].tag = "bool" /\ ~r.items[1].b
\* neither a bool nor a (bool, message) pair
BreaksContract(r) ==
    /\ r.tag # "bool"
    /\ ~(IsPair(r) /\ r.items[1].tag = "bool")

\* C1 (as stated): a construction that returns has called every method
\* decorated with @check, whatever its name.
C1_EveryCheckInvoked == Constructed => DeclaredNames \subseteq Names(last.called)

\* C1 (amended): the constructor calls exactly the @check methods whose name
\* has no leading underscore, each once, on the assigned field, and never one
\* whose name starts with an underscore; when none of them fails it returns
\* the instance, and a class without such checks always constructs.
C1_PublicChecksInvoked ==
    last.op = "init" =>
        /\ \A i \in DOMAIN last.called : last.called[i][1] # "_"
        /\ Names(last.called) \subseteq PublicCheckNames
        /\ Constructed =>
              /\ Names(last.called) = PublicCheckNames
              /\ Len(last.called) = Cardinality(PublicCheckNames)
              /\ last.target = Len(objs)
              /\ objs[last.target].x = last.x
        /\ PublicCheckNames = {} => Constructed

\* a construction returned after calling a public check although an
\* underscore-named @check method of the class fails for its field
C1_Witness ==
    /\ Constructed
    /\ Len(last.called) >= 1
    /\ \E d \in HiddenChecks : wrapper(d, last.x) # NoError

\* C2: a check returning False or (False, message) fails construction with
\* the supplied message, or with 'Check failed: <name>' when none is supplied
\* (an empty supplied message may surface as either).
C2_FailureMessage ==
    (ACheckRan /\ IsFailure(Returned)) =>
        /\ ConstructionFailed
        /\ last.error.hasArg
        /\ LET supplied == IF IsPair(Returned) THEN Item(Returned.items[2]) ELSE PyNone
           IN CASE Returned.tag = "bool" -> last.error.arg = DefaultMessage(LastCalled)
                [] Truthy(supplied) -> last.error.arg = supplied
                [] OTHER -> last.error.arg \in {supplied, DefaultMessage(LastCalled)}

\* C3: a check returning neither a bool nor a (bool, message) pair fails
\* construction with CheckMustReturnBoolError, with or without exception_type.
C3_ContractViolation ==
    (ACheckRan /\ BreaksContract(Returned)) =>
        last.error.kind = "CheckMustReturnBoolError"

C5_FailFast ==
    last.op = "init" =>
        LET cs == obtain_checks(cls)
            n == Len(last.called)
        IN /\ n <= Len(cs)
           /\ \A i \in 1..n : last.called[i] = cs[i].name
           /\ \A i \in 1..n : i < n => wrapper(cs[i], last.x) = NoError
           /\ ConstructionFailed => n >= 1 /\ last.error = wrapper(cs[n], last.x)
           /\ Constructed => n = Len(cs) /\ \A i \in 1..n : wrapper(cs[i], last.x) = NoError

\* two checks would both fail; only the first was called and raised
C5_Witness ==
    /\ ConstructionFailed
    /\ Len(last.called) = 1
    /\ Len(obtain_checks(cls)) = 2
    /\ wrapper(obtain_checks(cls)[2], last.x) # NoError
    /\ wrapper(obtain_checks(cls)[2], last.x) # last.error

----------------------------------------------------------------------------
(* Properties of instances in use *)

\* the instance passes every @check method of its class
PassesAll(o) == \A d \in Declared : wrapper(d, o.x) = NoError
\* the instance passes every @check method the constructor calls
PassesPublic(o) == \A d \in Declared : d.name[1] # "_" => wrapper(d, o.x) = NoError

\* C6 (as stated): every instance that exists satisfies every declared check,
\* whatever operations were applied to it.
C6_NeverInvalid == \A i \in DOMAIN objs : PassesAll(objs[i])

\* C6 (amended): an instance satisfies every check the constructor calls (the
\* @check methods without a leading underscore) when the constructor returns
\* it, and a ValueObject instance for ever after; a construction whose check
\* fails adds no instance and changes none. Field assignment on an Entity or
\* an Aggregate is not validated.
C6_ValidWhenConstructed ==
    /\ [](cls.kind = "ValueObject" => \A i \in DOMAIN objs : PassesPublic(objs[i]))
    /\ [][/\ Len(objs') >= Len(objs)
          /\ Len(objs') > Len(objs) =>
                /\ last'.op = "init"
                /\ last'.error = NoError
                /\ PassesPublic(objs'[Len(objs')])
          /\ (last'.op = "init" /\ last'.error # NoError) => objs' = objs]_vars

\* an Entity or Aggregate was constructed valid and a later assignment left
\* it failing a check the constructor had called
C6_Witness ==
    /\ last.op = "setattr"
    /\ last.error = NoError
    /\ ~PassesPublic(objs[last.target])

\* C7: add_event lengthens the log of its aggregate by the event passed, at
\* the end, and keeps what was there in order; clear_events empties it; a new
\* aggregate starts with an empty log; nothing else changes a log.
C7_EventLog ==
    [][/\ \A i \in DOMAIN objs :
              LET old == get_events(objs[i])
                  new == get_events(objs'[i])
              IN CASE last'.op = "add_event" /\ last'.target = i ->
                          new = old \o <<last'.event>>
                   [] last'.op = "clear_events" /\ last'.target = i -> new = <<>>
                   [] OTHER -> new = old
       /\ Len(objs') > Len(objs) => get_events(objs'[Len(objs')]) = <<>>]_vars

\* add_event was called twice with different events: the log holds both, the
\* first one first
C7_Witness ==
    /\ last.op = "add_event"
    /\ last.event = "Changed"
    /\ get_events(objs[last.target]) = <<"Created", "Changed">>

----------------------------------------------------------------------------
(* PrometheusMetricsHook (stories/prometheus/hook.py, stories/aioprometheus/hook.py) *)

metric_name(prefix) == prefix \o "_" \o "executions_latency_ms"
step_metric_name(prefix) == prefix \o "_" \o "step_executions_latency_ms"
meta_key(prefix) == prefix \o "_" \o "metrics"

\* the backend's registry already holds a collector of that name
Registered(hs, v, name) == <<v, name>> \in DOMAIN hs

\* the backend's registry with collector h added
register(hs, h) == (<<h.variant, h.name>> :> h) @@ hs

\* Histogram(name, ...): prometheus_client takes the label names, aioprometheus
\* the constant labels
Histogram(v, name, app_name, labelnames) ==
    [variant |-> v, name |-> name,
     labelnames |-> IF v = "prometheus" THEN labelnames ELSE <<>>,
     const_labels |-> IF v = "prometheus" THEN <<>> ELSE <<app_name>>,
     obs |-> <<>>]

AggLabelNames == <<"service", "story_name", "status">>
StepLabelNames == <<"service", "story_name", "step_name", "status">>

\* faulty variant of hook_post_init: the histograms are created without looking the
\* aggregate name up in the registry first
hook_post_init_always(v, app_name, prefix) ==
    LET mn == metric_name(prefix)
        sn == step_metric_name(prefix)
        reg == metrics[v]
    IN IF Registered(hist, v, mn)
       THEN [metrics |-> reg, hist |-> hist, error |-> Raise("ValueError")]
       ELSE LET h1 == register(hist, Histogram(v, mn, app_name, AggLabelNames))
                h2 == register(h1, Histogram(v, sn, app_name, StepLabelNames))
            IN [metrics |-> (mn :> <<v, mn>>) @@ (sn :> <<v, sn>>) @@ reg,
                hist |-> h2, error |-> NoError]

\* __post_init__: the registry of the hook's module and the backend's
\* histograms after it, and the exception it raises (the backend refuses a
\* second collector of one name)
hook_post_init(v, app_name, prefix) ==
    LET mn == metric_name(prefix)
        sn == step_metric_name(prefix)
        reg == metrics[v]
    IN IF mn \in DOMAIN reg
       THEN [metrics |-> reg, hist |-> hist, error |-> NoError]
       ELSE IF Registered(hist, v, mn)
       THEN [metrics |-> reg, hist |-> hist, error |-> Raise("ValueError")]
       ELSE LET h1 == register(hist, Histogram(v, mn, app_name, AggLabelNames))
                r1 == (mn :> <<v, mn>>) @@ reg
            IN IF Registered(h1, v, sn)
               THEN [metrics |-> r1, hist |-> h1, error |-> Raise("ValueError")]
               ELSE LET h2 == register(h1, Histogram(v, sn, app_name,
                                                          StepLabelNames))
                    IN [metrics |-> (sn :> <<v, sn>>) @@ r1, hist |-> h2,
                        error |-> NoError]

NoStep == [step_name |-> "", step_index |-> 0, meta |-> [status |-> <<>>, duration |-> <<>>]]

\* what the most recent operation on a hook did
HookOp(op, hook, step, error) == [op |-> op, hook |-> hook, step |-> step, error |-> error]

\* the dataclass __init__ of the hook: fields, then __post_init__
NewHook ==
    /\ \E v \in Variants, app_name \in AppNames, prefix \in Prefixes :
          LET r == hook_post_init(v, app_name, prefix)
              h == [variant |-> v, app_name |-> app_name, prefix |-> prefix,
                    meta_key |-> meta_key(prefix),
                    metric_name |-> metric_name(prefix),
                    step_metric_name |-> step_metric_name(prefix)]
          IN /\ Cardinality(hooks \cup {h}) <= MaxHooks
             /\ metrics' = [metrics EXCEPT ![v] = r.metrics]
             /\ hist' = r.hist
             /\ hooks' = IF r.error = NoError THEN hooks \cup {h} ELSE hooks
             /\ last' = HookOp("hook_init", h, NoStep, r.error)
    /\ UNCHANGED <<cls, objs, held, run, threads>>

\* int(seconds * 1000) of a duration held in microseconds
int_ms(us) == us \div 1000

RECURSIVE sum_durations(_)
sum_durations(steps) ==
    IF steps = <<>> THEN 0
    ELSE get(Head(steps).meta.duration, 0) + sum_durations(Tail(steps))

\* histogram.labels(...).observe(value) / histogram.observe(labels, value)
observe(hs, k, labels, value) ==
    [hs EXCEPT ![k].obs = Append(@, [labels |-> labels, value |-> value])]

\* prometheus_client's labels(...) takes exactly the label names the histogram
\* was created with; aioprometheus takes any labels
labels_accepted(hs, k, labels) ==
    hs[k].variant = "prometheus" =>
        DOMAIN labels = {hs[k].labelnames[i] : i \in DOMAIN hs[k].labelnames}

\* faulty variant of is_final_or_failed: a failed step that is not the last one is missed
is_last_only(context, step_info, status) ==
    step_info.step_index = Len(context.steps) - 1

\* faulty variant of is_final_or_failed: every step counts
is_any_step(context, step_info, status) == TRUE

\* step_info.step_index == len(context.steps) - 1 or status == StepStatus.FAILED
is_final_or_failed(context, step_info, status) ==
    \/ step_info.step_index = Len(context.steps) - 1
    \/ status = StepStatus_FAILED

\* faulty variant of py_str: the text of a member of a plain Enum
py_str_of_plain_enum(status) == IF status = "" THEN "" ELSE "StepStatus." \o status

\* str(...) of a status: a str, or a member of a string-valued enum, is its value
py_str(status) == status

\* after(context, step_info) of hook h: the backend's histograms after the
\* call, and the exception it raises
after(h, context, step_info) ==
    LET v == h.variant
        reg == metrics[v]
        status == IF v = "aioprometheus"
                  THEN py_str(get(step_info.meta.status, ""))
                  ELSE get(step_info.meta.status, "")
        story_name == context.story
        step_labels ==
            IF v = "prometheus"
            THEN [service |-> h.app_name, story_name |-> story_name,
                  step_name |-> step_info.step_name, status |-> status]
            ELSE [story_name |-> story_name, step_name |-> step_info.step_name,
                  status |-> status]
        agg_labels ==
            IF v = "prometheus"
            THEN [service |-> h.app_name, story_name |-> story_name, status |-> status]
            ELSE [story_name |-> story_name, status |-> status]
    IN IF h.step_metric_name \notin DOMAIN reg
       THEN [hist |-> hist, error |-> Raise("KeyError")]
       ELSE IF ~labels_accepted(hist, reg[h.step_metric_name], step_labels)
       THEN [hist |-> hist, error |-> Raise("ValueError")]
       ELSE LET h1 == observe(hist, reg[h.step_metric_name], step_labels,
                              int_ms(get(step_info.meta.duration, 0)))
            IN IF ~is_final_or_failed(context, step_info, status)
               THEN [hist |-> h1, error |-> NoError]
               ELSE IF h.metric_name \notin DOMAIN reg
               THEN [hist |-> h1, error |-> Raise("KeyError")]
               ELSE IF ~labels_accepted(h1, reg[h.metric_name], agg_labels)
               THEN [hist |-> h1, error |-> Raise("ValueError")]
               ELSE [hist |-> observe(h1, reg[h.metric_name], agg_labels,
                                      int_ms(sum_durations(context.steps))),
                     error |-> NoError]

\* observations held by the histogram the registry of v keeps under name
Observations(v, name) ==
    IF name \in DOMAIN metrics[v] THEN hist[metrics[v][name]].obs ELSE <<>>

StepInfo(i) ==
    [step_name |-> "step" \o ToString(i), step_index |-> i,
     meta |-> [status |-> <<>>, duration |-> <<>>]]

\* the framework starts a story of n steps with hook k registered for 'after'
StartStory ==
    /\ run.active => run.finished
    /\ run.calls < MaxCalls
    /\ \E h \in hooks, n \in 1..MaxSteps, story \in StoryNames :
          /\ run' = [active |-> TRUE, finished |-> FALSE, hook |-> h, story |-> story,
                  steps |-> [i \in 1..n |-> StepInfo(i - 1)],
                  next |-> 0, calls |-> run.calls,
                  step_before |-> Len(Observations(h.variant, h.step_metric_name)),
                  agg_before |-> Len(Observations(h.variant, h.metric_name))]
          /\ last' = HookOp("story", h, NoStep, NoError)
    /\ UNCHANGED <<cls, objs, held, hooks, metrics, hist, threads>>

\* the framework completes the next step, fills its meta and calls the hook;
\* the story ends with its last step or with a failed one
CompleteStep ==
    /\ run.active /\ ~run.finished
    /\ run.calls < MaxCalls
    /\ \E meta \in Metas :
          LET i == run.next
              info == [run.steps[i + 1] EXCEPT !.meta = meta]
              context == [story |-> run.story,
                          steps |-> [run.steps EXCEPT ![i + 1] = info]]
              r == after(run.hook, context, info)
          IN /\ hist' = r.hist
             /\ last' = HookOp("after", run.hook, info, r.error)
             /\ run' = [run EXCEPT
                          !.steps = context.steps,
                          !.next = i + 1,
                          !.calls = @ + 1,
                          !.finished = (i = Len(run.steps) - 1
                                        \/ meta.status = <<StepStatus_FAILED>>)]
    /\ UNCHANGED <<cls, objs, held, hooks, metrics, threads>>

InitHook ==
    /\ cls = [kind |-> "Entity", decls |-> <<>>]
    /\ objs = <<>>
    /\ last = Op("none", 0, 0, "", <<>>, NoError)
    /\ held = <<>>
    /\ HooksIdle

NextHook == NewHook \/ StartStory \/ CompleteStep

SpecHook == InitHook /\ [][NextHook]_vars

----------------------------------------------------------------------------
(* Metrics hooks: claims *)

AggRef(h) == <<h.variant, h.metric_name>>
StepRef(h) == <<h.variant, h.step_metric_name>>
SamePrefix(g, h) == g.variant = h.variant /\ g.prefix = h.prefix
LastOf(seq) == seq[Len(seq)]
GrownByOne(old, new) == Len(new) = Len(old) + 1 /\ SubSeq(new, 1, Len(old)) = old

\* C8: hooks constructed with one prefix create the aggregate histogram and the
\* step histogram once only. Every constructed hook finds both its names in the
\* registry, the backend holds one histogram for a name, and a name never stops
\* resolving to the histogram it resolved to. The first construction with a
\* prefix adds exactly the two names of that prefix, each with a new empty
\* histogram; every later construction with that prefix succeeds and leaves the
\* registry and the histograms as they were.
C8_HistogramsCreatedOnce ==
    /\ [](/\ \A h \in hooks :
                /\ {h.metric_name, h.step_metric_name} \subseteq DOMAIN metrics[h.variant]
                /\ metrics[h.variant][h.metric_name] \in DOMAIN hist
                /\ metrics[h.variant][h.step_metric_name] \in DOMAIN hist
          /\ \A k \in DOMAIN hist : k = <<hist[k].variant, hist[k].name>>)
    /\ [][/\ \A v \in Variants : \A name \in DOMAIN metrics[v] :
                /\ name \in DOMAIN metrics'[v]
                /\ metrics'[v][name] = metrics[v][name]
                /\ metrics[v][name] \in DOMAIN hist'
          /\ last'.op = "hook_init" =>
                LET h == last'.hook
                    v == h.variant
                    names == {h.metric_name, h.step_metric_name}
                IN /\ last'.error = NoError
                   /\ h \in hooks'
                   /\ \A k \in DOMAIN hist : k \in DOMAIN hist' /\ hist'[k] = hist[k]
                   /\ \A w \in Variants \ {v} : metrics'[w] = metrics[w]
                   /\ IF \E g \in hooks : SamePrefix(g, h)
                      THEN metrics' = metrics /\ hist' = hist
                      ELSE /\ names \cap DOMAIN metrics[v] = {}
                           /\ DOMAIN metrics'[v] = DOMAIN metrics[v] \cup names
                           /\ DOMAIN hist' = DOMAIN hist \cup {AggRef(h), StepRef(h)}
                           /\ metrics'[v][h.metric_name] = AggRef(h)
                           /\ metrics'[v][h.step_metric_name] = StepRef(h)
                           /\ hist'[AggRef(h)].obs = <<>>
                           /\ hist'[StepRef(h)].obs = <<>>]_vars

\* C8 witness: a hook has just been constructed with a prefix whose histograms
\* already hold observations, next to histograms of another prefix.
C8_Witness ==
    /\ last.op = "hook_init"
    /\ last.error = NoError
    /\ Observations(last.hook.variant, last.hook.step_metric_name) # <<>>
    /\ Observations(last.hook.variant, last.hook.metric_name) # <<>>
    /\ \E g \in hooks : g.variant = last.hook.variant /\ g.prefix # last.hook.prefix

\* C9: every call of after records exactly one observation in the step
\* histogram, with the step's status or the empty string when the meta has no
\* status; it records one observation in the aggregate histogram if the step is
\* the last of context.steps or its status is failed, and otherwise leaves the
\* aggregate histogram as it was. No other histogram changes.
C9_AfterRecords ==
    [][last'.op = "after" =>
          LET h == last'.hook
              info == last'.step
              final == \/ info.step_index = Len(run'.steps) - 1
                       \/ info.meta.status = <<StepStatus_FAILED>>
              recorded == LastOf(hist'[StepRef(h)].obs)
          IN /\ last'.error = NoError
             /\ GrownByOne(hist[StepRef(h)].obs, hist'[StepRef(h)].obs)
             /\ recorded.labels.step_name = info.step_name
             /\ recorded.labels.status =
                   IF info.meta.status = <<>> THEN "" ELSE info.meta.status[1]
             /\ IF final
                THEN /\ GrownByOne(hist[AggRef(h)].obs, hist'[AggRef(h)].obs)
                     /\ LastOf(hist'[AggRef(h)].obs).labels.status = recorded.labels.status
                ELSE hist'[AggRef(h)] = hist[AggRef(h)]
             /\ DOMAIN hist' = DOMAIN hist
             /\ \A k \in DOMAIN hist \ {StepRef(h), AggRef(h)} : hist'[k] = hist[k]]_vars

\* C9 witness: after was called for a step that is neither the last one nor
\* failed and whose meta has no status: the step histogram got an observation
\* with the empty status, the aggregate histogram none.
C9_Witness ==
    /\ last.op = "after"
    /\ last.step.meta.status = <<>>
    /\ last.step.step_index < Len(run.steps) - 1
    /\ LastOf(hist[StepRef(last.hook)].obs).labels.status = ""
    /\ Len(hist[StepRef(last.hook)].obs) = run.step_before + run.next
    /\ Len(hist[AggRef(last.hook)].obs) = run.agg_before

\* C10: in a story run the hook has recorded one step observation for each
\* completed step; it has recorded no aggregate observation while the run is
\* under way and exactly one when the run has ended, be it at the last step, at
\* a failed step, or at a last step that failed.
C10_OneAggregatePerRun ==
    run.active =>
        /\ Len(hist[StepRef(run.hook)].obs) = run.step_before + run.next
        /\ Len(hist[AggRef(run.hook)].obs) =
              run.agg_before + (IF run.finished THEN 1 ELSE 0)

\* C10 witness: a run of 3 steps whose last step failed has ended with 3 step
\* observations and one aggregate observation.
C10_Witness ==
    /\ run.active /\ run.finished
    /\ Len(run.steps) = 3
    /\ run.next = 3
    /\ run.steps[3].meta.status = <<StepStatus_FAILED>>
    /\ Len(hist[StepRef(run.hook)].obs) = run.step_before + 3
    /\ Len(hist[AggRef(run.hook)].obs) = run.agg_before + 1

----------------------------------------------------------------------------
(* The two hook modules side by side *)

\* the hook of the other module with the same configuration
Twin(h) ==
    [h EXCEPT !.variant = IF @ = "prometheus" THEN "aioprometheus" ELSE "prometheus"]

\* the histograms after both modules have acted: each module changes only the
\* histograms of its own backend
merge(hp, ha) ==
    [k \in DOMAIN hp \cup DOMAIN ha |-> IF k[1] = "prometheus" THEN hp[k] ELSE ha[k]]

\* a hook of each module is constructed with one configuration
NewHookPair ==
    /\ \E app_name \in AppNames, prefix \in Prefixes :
          LET rp == hook_post_init("prometheus", app_name, prefix)
              ra == hook_post_init("aioprometheus", app_name, prefix)
              h == [variant |-> "prometheus", app_name |-> app_name, prefix |-> prefix,
                    meta_key |-> meta_key(prefix),
                    metric_name |-> metric_name(prefix),
                    step_metric_name |-> step_metric_name(prefix)]
          IN /\ Cardinality(hooks \cup {h, Twin(h)}) <= 2 * MaxHooks
             /\ metrics' = [metrics EXCEPT !["prometheus"] = rp.metrics,
                                           !["aioprometheus"] = ra.metrics]
             /\ hist' = merge(rp.hist, ra.hist)
             /\ hooks' = IF rp.error = NoError /\ ra.error = NoError
                         THEN hooks \cup {h, Twin(h)} ELSE hooks
             /\ last' = HookOp("hook_init", h, NoStep,
                               IF rp.error # NoError THEN rp.error ELSE ra.error)
    /\ UNCHANGED <<cls, objs, held, run, threads>>

\* the framework completes the next step and calls after of the registered
\* hook and of its twin with the same context and step
CompleteStepPair ==
    /\ run.active /\ ~run.finished
    /\ run.calls < MaxCalls
    /\ \E meta \in Metas :
          LET i == run.next
              info == [run.steps[i + 1] EXCEPT !.meta = meta]
              context == [story |-> run.story,
                          steps |-> [run.steps EXCEPT ![i + 1] = info]]
              r == after(run.hook, context, info)
              t == after(Twin(run.hook), context, info)
          IN /\ hist' = IF run.hook.variant = "prometheus"
                        THEN merge(r.hist, t.hist) ELSE merge(t.hist, r.hist)
             /\ last' = HookOp("after", run.hook, info,
                               IF r.error # NoError THEN r.error ELSE t.error)
             /\ run' = [run EXCEPT
                          !.steps = context.steps,
                          !.next = i + 1,
                          !.calls = @ + 1,
                          !.finished = (i = Len(run.steps) - 1
                                        \/ meta.status = <<StepStatus_FAILED>>)]
    /\ UNCHANGED <<cls, objs, held, hooks, metrics, threads>>

NextPair == NewHookPair \/ StartStory \/ CompleteStepPair

SpecPair == InitHook /\ [][NextPair]_vars

\* an observation without the service tag
WithoutService(o) ==
    [labels |-> [f \in DOMAIN o.labels \ {"service"} |-> o.labels[f]], value |-> o.value]

Observed(v, name) ==
    [i \in DOMAIN Observations(v, name) |-> WithoutService(Observations(v, name)[i])]

----------------------------------------------------------------------------
(* Hooks with arbitrary prefixes *)

\* with "a_step" the aggregate name of one prefix is the step name of another
AnyPrefixes == Prefixes \cup {"a_step"}

NewHookAnyPrefix ==
    /\ \E v \in Variants, app_name \in AppNames, prefix \in AnyPrefixes :
          LET r == hook_post_init(v, app_name, prefix)
              h == [variant |-> v, app_name |-> app_name, prefix |-> prefix,
                    meta_key |-> meta_key(prefix),
                    metric_name |-> metric_name(prefix),
                    step_metric_name |-> step_metric_name(prefix)]
          IN /\ Cardinality(hooks \cup {h}) <= MaxHooks
             /\ metrics' = [metrics EXCEPT ![v] = r.metrics]
             /\ hist' = r.hist
             /\ hooks' = IF r.error = NoError THEN hooks \cup {h} ELSE hooks
             /\ last' = HookOp("hook_init", h, NoStep, r.error)
    /\ UNCHANGED <<cls, objs, held, run, threads>>

NextAnyPrefix == NewHookAnyPrefix \/ StartStory \/ CompleteStep

SpecAnyPrefix == InitHook /\ [][NextAnyPrefix]_vars

\* C12: after any sequence of hook constructions with arbitrary prefixes, also
\* when one prefix is another followed by "_step", the registry holds a
\* histogram under the aggregate name and under the step name of every
\* constructed hook, no construction attempts a duplicate registration with the
\* backend, and no after call finds its metric name missing.
C12_RegistryComplete ==
    /\ \A h \in hooks :
          {h.metric_name, h.step_metric_name} \subseteq DOMAIN metrics[h.variant]
    /\ last.op = "hook_init" => last.error = NoError
    /\ last.op = "after" => last.error.kind # "KeyError"

----------------------------------------------------------------------------
(* Hooks constructed by concurrent threads: __post_init__ statement by statement *)

\* faulty variant of name_absent: the registry is not consulted
name_absent_always(v, name) == TRUE

\* metric_name not in PrometheusMetricsHook._metrics
name_absent(v, name) == name \notin DOMAIN metrics[v]

\* a thread enters the constructor: the names are built and the aggregate name
\* is looked up in the registry
ThreadTest ==
    \E t \in ThreadIds, v \in Variants, app_name \in AppNames, prefix \in Prefixes :
        /\ threads[t].pc = "idle"
        /\ LET h == [variant |-> v, app_name |-> app_name, prefix |-> prefix,
                     meta_key |-> meta_key(prefix),
                     metric_name |-> metric_name(prefix),
                     step_metric_name |-> step_metric_name(prefix)]
               absent == name_absent(v, h.metric_name)
           IN /\ threads' = [threads EXCEPT ![t] =
                                [pc |-> IF absent THEN "create_agg" ELSE "done",
                                 hook |-> h, absent |-> absent, error |-> NoError]]
              /\ hooks' = IF absent THEN hooks ELSE hooks \cup {h}
              /\ last' = HookOp(IF absent THEN "test" ELSE "hook_init", h, NoStep, NoError)
        /\ UNCHANGED <<cls, objs, held, metrics, hist, run>>

\* Histogram(name, ...) by thread t: the backend registers the collector, or
\* refuses a name it already holds and the constructor ends with that error
ThreadCreate(t, pc, name, labelnames, then) ==
    /\ threads[t].pc = pc
    /\ LET h == threads[t].hook
       IN IF Registered(hist, h.variant, name)
          THEN /\ threads' = [threads EXCEPT ![t].pc = "failed",
                                             ![t].error = Raise("ValueError")]
               /\ last' = HookOp("hook_init", h, NoStep, Raise("ValueError"))
               /\ UNCHANGED hist
          ELSE /\ hist' = register(hist, Histogram(h.variant, name, h.app_name, labelnames))
               /\ threads' = [threads EXCEPT ![t].pc = then]
               /\ last' = HookOp(pc, h, NoStep, NoError)
    /\ UNCHANGED <<cls, objs, held, hooks, metrics, run>>

\* PrometheusMetricsHook._metrics[name] = <the histogram just created>
ThreadStore(t, pc, name, then) ==
    /\ threads[t].pc = pc
    /\ LET h == threads[t].hook
       IN /\ metrics' = [metrics EXCEPT ![h.variant] = (name :> <<h.variant, name>>) @@ @]
          /\ threads' = [threads EXCEPT ![t].pc = then]
          /\ hooks' = IF then = "done" THEN hooks \cup {h} ELSE hooks
          /\ last' = HookOp(IF then = "done" THEN "hook_init" ELSE pc, h, NoStep, NoError)
    /\ UNCHANGED <<cls, objs, held, hist, run>>

ThreadCreateAgg ==
    \E t \in ThreadIds :
        ThreadCreate(t, "create_agg", threads[t].hook.metric_name, AggLabelNames, "store_agg")

ThreadStoreAgg ==
    \E t \in ThreadIds :
        ThreadStore(t, "store_agg", threads[t].hook.metric_name, "create_step")

ThreadCreateStep ==
    \E t \in ThreadIds :
        ThreadCreate(t, "create_step", threads[t].hook.step_metric_name, StepLabelNames,
                     "store_step")

ThreadStoreStep ==
    \E t \in ThreadIds :
        ThreadStore(t, "store_step", threads[t].hook.step_metric_name, "done")

NextThreads ==
    ThreadTest \/ ThreadCreateAgg \/ ThreadStoreAgg \/ ThreadCreateStep \/ ThreadStoreStep

SpecThreads == InitHook /\ [][NextThreads]_vars

\* thread u has asked the backend for the aggregate histogram of thread t's
\* hook and got it
CreatedFor(u, t) ==
    /\ SamePrefix(threads[u].hook, threads[t].hook)
    /\ threads[u].absent
    /\ threads[u].pc \in {"store_agg", "create_step", "store_step", "done"}

\* C13: the constructor's test of the registry and its insertion are separate
\* steps with no lock between them. A thread goes on to create the histograms
\* exactly when it found the aggregate name absent, whatever other threads have
\* done since; so a thread's creation is refused as a duplicate registration
\* exactly because another thread constructing a hook of the same prefix also
\* found the name absent and created the histogram first.
C13_CheckThenInsert ==
    /\ [](\A t \in ThreadIds :
             threads[t].pc = "failed" =>
                 /\ threads[t].absent
                 /\ threads[t].error = Raise("ValueError")
                 /\ \E u \in ThreadIds \ {t} : CreatedFor(u, t))
    /\ [][\A t \in ThreadIds :
             /\ (threads[t].pc = "idle" /\ threads'[t].pc # "idle") =>
                   /\ threads'[t].absent =
                         (threads'[t].hook.metric_name
                             \notin DOMAIN metrics[threads'[t].hook.variant])
                   /\ threads'[t].pc = IF threads'[t].absent THEN "create_agg" ELSE "done"
             /\ (threads[t].pc = "create_agg" /\ threads'[t].pc # "create_agg") =>
                   (threads'[t].pc = "failed") =
                      (\E u \in ThreadIds \ {t} : CreatedFor(u, t))]_vars

\* C13 witness: two threads constructing hooks of one prefix both found the
\* aggregate name absent; one has created the histogram, the other's creation
\* was refused by the backend as a duplicate.
C13_Witness ==
    \E t, u \in ThreadIds :
        /\ t # u
        /\ SamePrefix(threads[t].hook, threads[u].hook)
        /\ threads[t].absent /\ threads[u].absent
        /\ threads[u].pc = "done"
        /\ threads[t].pc = "failed"
        /\ threads[t].error = Raise("ValueError")

----------------------------------------------------------------------------
(* Aggregates and the lists get_events hands out *)

\* faulty variant of events_list: a new list with the events of the moment
events_list_copy(i) == [owner |-> i, own |-> FALSE, items |-> objs[i].events]

\* return self._events: the list object instance i got from default_factory at
\* construction (no method rebinds _events), not a new list
events_list(i) == [owner |-> i, own |-> TRUE, items |-> <<>>]

\* what a list reads as now
contents(list) == IF list.own THEN objs[list.owner].events ELSE list.items

\* an aggregate without checks is constructed
ConstructAggregate ==
    /\ Len(objs) < MaxAggregates
    /\ cls.kind = "Aggregate"
    /\ LET r == post_init(cls, 0)
       IN /\ objs' = IF r.error = NoError THEN Append(objs, NewInstance(0)) ELSE objs
          /\ last' = Op("init", IF r.error = NoError THEN Len(objs) + 1 ELSE 0, 0, "",
                        r.called, r.error)
    /\ UNCHANGED <<cls, held, hookVars>>

\* the caller keeps what get_events of aggregate i returned
GetEvents ==
    /\ Len(held) < MaxHeld
    /\ \E i \in 1..Len(objs) :
          /\ held' = Append(held, [target |-> i, list |-> events_list(i)])
          /\ last' = Op("get_events", i, objs[i].x, "", <<>>, NoError)
    /\ UNCHANGED <<cls, objs, hookVars>>

InitEvents ==
    /\ cls = [kind |-> "Aggregate", decls |-> <<>>]
    /\ objs = <<>>
    /\ last = Op("none", 0, 0, "", <<>>, NoError)
    /\ held = <<>>
    /\ HooksIdle

NextEvents == ConstructAggregate \/ GetEvents \/ AddEvent \/ ClearEvents

SpecEvents == InitEvents /\ [][NextEvents]_vars

----------------------------------------------------------------------------
(* Order of the checks *)

FailingChecks(ds) == {d \in ds : d.check /\ wrapper(d, last.x) # NoError}
FirstByName(ds) == CHOOSE d \in ds : \A e \in ds \ {d} : StrLess(d.name, e.name)
PublicChecks == {d \in Declared : ~StartsWithUnderscore(d.name)}

\* C15 as stated: the error of a construction is that of the failing check,
\* among all @check methods of the type, whose name comes first.
C15_FirstFailingOfAll ==
    last.op = "init" =>
        IF FailingChecks(Declared) = {} THEN last.error = NoError
        ELSE last.error = wrapper(FirstByName(FailingChecks(Declared)), last.x)

\* C15: the checks are called in ascending order of their names whatever the
\* order of declaration; the error of a construction is that of the failing
\* check, among the @check methods without leading underscore, whose name
\* comes first, and there is no error when none of them fails; two
\* constructions in a row with the same field value call the same checks and
\* end with the same error.
C15_FirstFailingPublic ==
    /\ [](last.op = "init" =>
             /\ \A i, j \in DOMAIN last.called :
                   i < j => StrLess(last.called[i], last.called[j])
             /\ IF FailingChecks(PublicChecks) = {} THEN last.error = NoError
                ELSE last.error = wrapper(FirstByName(FailingChecks(PublicChecks)), last.x))
    /\ [][(last.op = "init" /\ last'.op = "init" /\ last'.x = last.x) =>
             last'.called = last.called /\ last'.error = last.error]_vars

\* C15 witness: check b is declared before check a, both fail with different
\* errors, and the construction ended with the error of a without calling b.
C15_Witness ==
    /\ ConstructionFailed
    /\ Len(cls.decls) = 2
    /\ cls.decls[1].name = <<"b">> /\ cls.decls[2].name = <<"a">>
    /\ FailingChecks(Declared) = Declared
    /\ last.called = << <<"a">> >>
    /\ last.error = wrapper(cls.decls[2], last.x)
    /\ last.error # wrapper(cls.decls[1], last.x)

====
